---- MODULE Spec2Model ----
(***************************************************************************)
(* State-machine model of the agenda-base task service:                    *)
(*   js/modules/tasks.js      the Task Service (cache + notifications)     *)
(*   js/modules/localStore.js the LocalStorage adapter (guest mode)        *)
(*   firebase.js              the Firestore adapter (firebase mode)        *)
(*   js/modules/auth.js       the session (current user and mode)          *)
(*   js/main.js               the wiring of auth events to loadTasks       *)
(* Guest-mode operations contain no await and are single atomic actions.   *)
(* Firebase-mode operations suspend at every Firestore call; each call in  *)
(* flight is an entry of `calls` and advances one await at a time.         *)
(***************************************************************************)
EXTENDS Integers, Sequences, FiniteSets, TLC

VARIABLES
  currentUser,  \* auth.js `currentUser`
  tasks,        \* tasks.js `tasks`, the cached list
  nsubs,        \* length of tasks.js `tasksChangeCallbacks`
  storage,      \* window.localStorage: owner id -> serialized blob
  remote,       \* Firestore collection 'tasks': document key -> data
  nextId,       \* next identifier handed out (randomUUID / document key)
  now,          \* the reading of Date.now()
  calls,        \* firebase-mode operations suspended at an await
  last,         \* what the most recently finished call gave to its caller
  cbCount,      \* callbacks invoked by the latest step
  cbArg,        \* the list those callbacks were given
  snap,         \* an array obtained from getTasks and kept by a caller
  hist          \* the creations a caller made in a row on an empty cache

vars == <<currentUser, tasks, nsubs, storage, remote, nextId, now, calls,
          last, cbCount, cbArg, snap, hist>>

----------------------------------------------------------------------------
(* Bounds of the model *)

MaxTasks == 2     \* identifiers handed out in one behaviour
MaxClock == 2     \* largest reading of Date.now()
MaxSubs  == 2     \* registered change callbacks
MaxSnap  == 3     \* elements of an array a caller holds
DayMs    == 3     \* instants of one calendar day
MaxSorted == 3    \* tasks of a cache that is filtered and sorted
MaxUpdated == 1   \* tasks created where updateTask takes any fields

----------------------------------------------------------------------------
(* Values *)

NoId == 0                       \* `null` owner id / an id no task has
NullUser == [id |-> NoId, mode |-> "null"]
FirebaseUids == {101}           \* result.user.uid of the identity provider

BuyMilk == <<"B", "u", "y", " ", "m", "i", "l", "k">>
TitleInputs == {<<>>, <<" ">>, BuyMilk}
NoDue == -1                     \* a dueDate of `null`
DueInputs == {NoDue, 0, 1}      \* null, or milliseconds since the epoch

----------------------------------------------------------------------------
(* String.prototype.trim and the emptiness test of addTask *)

RECURSIVE TrimStart(_)
TrimStart(s) ==
  IF s # <<>> /\ Head(s) = " " THEN TrimStart(Tail(s)) ELSE s

RECURSIVE TrimEnd(_)
TrimEnd(s) ==
  IF s # <<>> /\ s[Len(s)] = " " THEN TrimEnd(SubSeq(s, 1, Len(s) - 1)) ELSE s

Trim(s) == TrimEnd(TrimStart(s))

\* variant: the test of `!title` alone, without the trim
IsEmptyTitleNoTrim(title) == title = <<>>

IsEmptyTitle(title) == title = <<>> \/ Len(Trim(title)) = 0

----------------------------------------------------------------------------
(* Objects: a task is a record whose domain is the set of its properties *)

FieldOrder ==
  <<"id", "ownerId", "title", "done", "createdAt", "dueDate",
    "category", "priority", "status">>

Keys(obj) == SelectSeq(FieldOrder, LAMBDA f : f \in DOMAIN obj)

\* { ...a, ...b }
Spread(a, b) ==
  [f \in DOMAIN a \cup DOMAIN b |-> IF f \in DOMAIN b THEN b[f] ELSE a[f]]

\* JSON.stringify of a list of tasks: per task its properties in order
JSONStringify(list) ==
  [i \in 1..Len(list) |->
     [k \in 1..Len(Keys(list[i])) |->
        <<Keys(list[i])[k], list[i][Keys(list[i])[k]]>>]]

JSONParse(raw) ==
  [i \in 1..Len(raw) |->
     [f \in {raw[i][k][1] : k \in 1..Len(raw[i])} |->
        raw[i][CHOOSE k \in 1..Len(raw[i]) : raw[i][k][1] = f][2]]]

\* array.findIndex(t => t.id === id); 0 stands for -1
FindIndex(list, id) ==
  IF \E i \in 1..Len(list) : list[i].id = id
  THEN CHOOSE i \in 1..Len(list) :
         /\ list[i].id = id
         /\ \A j \in 1..(i - 1) : list[j].id # id
  ELSE 0

\* array.filter(t => t.id !== id)
FilterOut(list, id) == SelectSeq(list, LAMBDA t : t.id # id)

\* variant: array.push(item)
Push(list, item) == list \o <<item>>

\* array.unshift(item)
Unshift(list, item) == <<item>> \o list

ReplaceAt(list, i, item) == [list EXCEPT ![i] = item]

----------------------------------------------------------------------------
(* auth.js *)

getCurrentUserId == currentUser.id

getCurrentUserMode == IF currentUser = NullUser THEN "null" ELSE currentUser.mode

NotAuthenticated == getCurrentUserId = NoId \/ getCurrentUserMode = "null"

----------------------------------------------------------------------------
(* localStore.js *)

\* load(userId): the parsed blob, or [] when the key is absent
LocalStoreLoad(userId) ==
  IF userId \in DOMAIN storage THEN JSONParse(storage[userId]) ELSE <<>>

\* save(userId, tasks): setItem may throw (quota); the error is swallowed
LocalStoreSave(store, userId, list, writeOk) ==
  IF writeOk
  THEN [u \in DOMAIN store \cup {userId} |->
          IF u = userId THEN JSONStringify(list) ELSE store[u]]
  ELSE store

\* the item add(userId, title) builds
LocalStoreItem(title) ==
  [id |-> nextId, title |-> title, done |-> FALSE, createdAt |-> now]

\* variant: toggle marks the task done instead of flipping the flag back
LocalStoreToggledOff(list, id) ==
  LET index == FindIndex(list, id)
  IN ReplaceAt(list, index, [list[index] EXCEPT !.done = FALSE])

\* the list toggle(userId, id) saves
LocalStoreToggled(list, id) ==
  LET index == FindIndex(list, id)
  IN ReplaceAt(list, index, [list[index] EXCEPT !.done = ~list[index].done])

\* the list update(userId, id, updates) saves
LocalStoreUpdated(list, id, updates) ==
  LET index == FindIndex(list, id)
  IN ReplaceAt(list, index, Spread(list[index], updates))

\* clear(userId): removeItem
LocalStoreClear(store, userId) ==
  [u \in DOMAIN store \ {userId} |-> store[u]]

----------------------------------------------------------------------------
(* tasks.js: notification *)

\* notifyTasksChange(): every callback gets a copy of the list
Notify(list) ==
  /\ cbCount' = nsubs
  /\ cbArg' = list

NoNotify ==
  /\ cbCount' = 0
  /\ cbArg' = <<>>

\* a finished call: what it was given and what it handed to its caller
Result(op, id, outcome, value) ==
  [op |-> op, id |-> id, outcome |-> outcome, value |-> value, args |-> <<>>]

Created(task, args) ==
  [op |-> "addTask", id |-> task.id, outcome |-> "ok", value |-> <<task>>,
   args |-> args]

NoResult == Result("none", NoId, "none", <<>>)

\* calls in flight that will still take an identifier
PendingAdds == Len(SelectSeq(calls, LAMBDA c : c.op = "addTask" /\ c.pc = "addDoc"))

CanAllocate == nextId + PendingAdds <= MaxTasks

\* dueDate ? new Date(dueDate).getTime() : null
DueMillis(dueDate) == IF dueDate # NoDue /\ dueDate # 0 THEN dueDate ELSE NoDue

Finish(i) == SubSeq(calls, 1, i - 1) \o SubSeq(calls, i + 1, Len(calls))

----------------------------------------------------------------------------
(* Init: the application after AgendaApp.init(): nobody signed in, an empty
   cache, and the one change callback main.js registers *)

Init ==
  /\ currentUser = NullUser
  /\ tasks = <<>>
  /\ nsubs = 1
  /\ storage = <<>>
  /\ remote = <<>>
  /\ nextId = 1
  /\ now = 1
  /\ calls = <<>>
  /\ last = NoResult
  /\ cbCount = 0
  /\ cbArg = <<>>
  /\ snap = <<>>
  /\ hist = [valid |-> TRUE, made |-> <<>>, again |-> FALSE]

\* the clock advances between any two events
Tick ==
  /\ now < MaxClock
  /\ now' = now + 1
  /\ NoNotify
  /\ UNCHANGED <<currentUser, tasks, nsubs, storage, remote, nextId, calls,
                 last, snap>>

----------------------------------------------------------------------------
(* tasks.js: loadTasks *)

LoadTasks ==
  /\ IF NotAuthenticated
     THEN /\ tasks' = <<>>
          /\ Notify(<<>>)
          /\ last' = Result("loadTasks", NoId, "ok", <<>>)
          /\ UNCHANGED calls
     ELSE IF getCurrentUserMode = "guest"
     THEN /\ tasks' = LocalStoreLoad(getCurrentUserId)
          /\ Notify(tasks')
          /\ last' = Result("loadTasks", NoId, "ok", <<>>)
          /\ UNCHANGED calls
     ELSE /\ calls' = Append(calls, [op |-> "loadTasks", pc |-> "getDocs",
                                     userId |-> getCurrentUserId])
          /\ NoNotify
          /\ UNCHANGED <<tasks, last>>
  /\ UNCHANGED <<currentUser, nsubs, storage, remote, nextId, now, snap>>

----------------------------------------------------------------------------
(* auth.js and the auth-state listener of main.js *)

\* enterAsGuest -> setCurrentUser -> handleUserLogin -> loadTasks (guest)
EnterAsGuest ==
  /\ currentUser' = [id |-> now, mode |-> "guest"]
  /\ tasks' = IF now \in DOMAIN storage THEN JSONParse(storage[now]) ELSE <<>>
  /\ Notify(tasks')
  /\ last' = Result("loadTasks", NoId, "ok", <<>>)
  /\ UNCHANGED <<nsubs, storage, remote, nextId, now, calls, snap>>

\* handleGoogleSignIn (success) -> setCurrentUser -> handleUserLogin -> loadTasks
GoogleSignIn(uid) ==
  /\ currentUser' = [id |-> uid, mode |-> "firebase"]
  /\ calls' = Append(calls, [op |-> "loadTasks", pc |-> "getDocs", userId |-> uid])
  /\ NoNotify
  /\ UNCHANGED <<tasks, nsubs, storage, remote, nextId, now, last, snap>>

\* handleSignOut: setCurrentUser(null); the cache is not touched
SignOut ==
  /\ currentUser # NullUser
  /\ currentUser' = NullUser
  /\ NoNotify
  /\ UNCHANGED <<tasks, nsubs, storage, remote, nextId, now, calls, last, snap>>

----------------------------------------------------------------------------
(* tasks.js: the mutating operations.  Each action is the synchronous part
   of the function: the whole of it in guest mode, up to the first await in
   firebase mode. *)

AddTask(title, dueDate, category, priority, status, writeOk) ==
  /\ IF NotAuthenticated
     THEN /\ last' = Result("addTask", NoId, "NotAuthenticated", <<>>)
          /\ NoNotify
          /\ UNCHANGED <<tasks, storage, nextId, calls>>
     ELSE IF IsEmptyTitle(title)
     THEN /\ last' = Result("addTask", NoId, "ValidationError", <<>>)
          /\ NoNotify
          /\ UNCHANGED <<tasks, storage, nextId, calls>>
     ELSE IF getCurrentUserMode = "guest"
     THEN LET newTask == LocalStoreItem(Trim(title))
              stored == Unshift(LocalStoreLoad(getCurrentUserId), newTask)
          IN /\ CanAllocate
             /\ storage' = LocalStoreSave(storage, getCurrentUserId, stored, writeOk)
             /\ nextId' = nextId + 1
             /\ tasks' = Unshift(tasks, newTask)
             /\ Notify(tasks')
             /\ last' = Created(newTask, <<title, dueDate, category, priority, status>>)
             /\ UNCHANGED calls
     ELSE /\ CanAllocate
          /\ calls' = Append(calls,
               [op |-> "addTask", pc |-> "addDoc", userId |-> getCurrentUserId,
                args |-> <<title, dueDate, category, priority, status>>,
                doc |-> [ownerId |-> getCurrentUserId, title |-> Trim(title),
                         done |-> FALSE, createdAt |-> now,
                         dueDate |-> DueMillis(dueDate)]])
          /\ NoNotify
          /\ UNCHANGED <<tasks, storage, nextId, last>>
  /\ UNCHANGED <<currentUser, nsubs, remote, now, snap>>

ToggleTask(id, writeOk) ==
  /\ IF NotAuthenticated
     THEN /\ last' = Result("toggleTask", id, "NotAuthenticated", <<>>)
          /\ NoNotify
          /\ UNCHANGED <<tasks, storage, calls>>
     ELSE IF getCurrentUserMode = "guest"
     THEN LET list == LocalStoreLoad(getCurrentUserId)
              index == FindIndex(list, id)
              saved == LocalStoreToggled(list, id)
              cached == FindIndex(tasks, id)
          IN IF index > 0
             THEN /\ storage' = LocalStoreSave(storage, getCurrentUserId, saved, writeOk)
                  /\ tasks' = IF cached > 0
                              THEN ReplaceAt(tasks, cached, saved[index])
                              ELSE tasks
                  /\ Notify(tasks')
                  /\ last' = Result("toggleTask", id, "ok", <<saved[index]>>)
                  /\ UNCHANGED calls
             ELSE /\ last' = Result("toggleTask", id, "null", <<>>)
                  /\ NoNotify
                  /\ UNCHANGED <<tasks, storage, calls>>
     ELSE /\ calls' = Append(calls,
               [op |-> "toggleTask", pc |-> "getDocs",
                userId |-> getCurrentUserId, id |-> id])
          /\ NoNotify
          /\ UNCHANGED <<tasks, storage, last>>
  /\ UNCHANGED <<currentUser, nsubs, remote, nextId, now, snap>>

UpdateTask(id, updates, writeOk) ==
  /\ IF NotAuthenticated
     THEN /\ last' = Result("updateTask", id, "NotAuthenticated", <<>>)
          /\ NoNotify
          /\ UNCHANGED <<tasks, storage, calls>>
     ELSE IF getCurrentUserMode = "guest"
     THEN LET list == LocalStoreLoad(getCurrentUserId)
              index == FindIndex(list, id)
              saved == LocalStoreUpdated(list, id, updates)
              cached == FindIndex(tasks, id)
          IN IF index > 0
             THEN /\ storage' = LocalStoreSave(storage, getCurrentUserId, saved, writeOk)
                  /\ tasks' = IF cached > 0
                              THEN ReplaceAt(tasks, cached, saved[index])
                              ELSE tasks
                  /\ Notify(tasks')
                  /\ last' = Result("updateTask", id, "ok", <<saved[index]>>)
                  /\ UNCHANGED calls
             ELSE /\ last' = Result("updateTask", id, "null", <<>>)
                  /\ NoNotify
                  /\ UNCHANGED <<tasks, storage, calls>>
     ELSE /\ calls' = Append(calls,
               [op |-> "updateTask", pc |-> "updateDoc",
                userId |-> getCurrentUserId, id |-> id, updates |-> updates])
          /\ NoNotify
          /\ UNCHANGED <<tasks, storage, last>>
  /\ UNCHANGED <<currentUser, nsubs, remote, nextId, now, snap>>

RemoveTask(id, writeOk) ==
  /\ IF NotAuthenticated
     THEN /\ last' = Result("removeTask", id, "NotAuthenticated", <<>>)
          /\ NoNotify
          /\ UNCHANGED <<tasks, storage, calls>>
     ELSE IF getCurrentUserMode = "guest"
     THEN /\ storage' = LocalStoreSave(storage, getCurrentUserId,
                          FilterOut(LocalStoreLoad(getCurrentUserId), id), writeOk)
          /\ tasks' = FilterOut(tasks, id)
          /\ Notify(tasks')
          /\ last' = Result("removeTask", id, "ok", <<>>)
          /\ UNCHANGED calls
     ELSE /\ calls' = Append(calls,
               [op |-> "removeTask", pc |-> "deleteDoc",
                userId |-> getCurrentUserId, id |-> id])
          /\ NoNotify
          /\ UNCHANGED <<tasks, storage, last>>
  /\ UNCHANGED <<currentUser, nsubs, remote, nextId, now, snap>>

\* the ids `for (const task of tasks)` still has to visit
TaskIds(list) == [i \in 1..Len(list) |-> list[i].id]

\* variant: the session is not checked before the adapter is used
ClearAllTasksUnguarded ==
  /\ IF getCurrentUserMode = "firebase" /\ tasks # <<>>
     THEN /\ calls' = Append(calls,
               [op |-> "clearAllTasks", pc |-> "deleteDoc",
                userId |-> getCurrentUserId, todo |-> TaskIds(tasks)])
          /\ NoNotify
          /\ UNCHANGED <<tasks, storage, last>>
     ELSE /\ storage' = LocalStoreClear(storage, getCurrentUserId)
          /\ tasks' = <<>>
          /\ Notify(<<>>)
          /\ last' = Result("clearAllTasks", NoId, "ok", <<>>)
          /\ UNCHANGED calls
  /\ UNCHANGED <<currentUser, nsubs, remote, nextId, now, snap>>

ClearAllTasks ==
  /\ IF NotAuthenticated
     THEN /\ last' = Result("clearAllTasks", NoId, "NotAuthenticated", <<>>)
          /\ NoNotify
          /\ UNCHANGED <<tasks, storage, calls>>
     ELSE IF getCurrentUserMode = "guest"
     THEN /\ storage' = LocalStoreClear(storage, getCurrentUserId)
          /\ tasks' = <<>>
          /\ Notify(<<>>)
          /\ last' = Result("clearAllTasks", NoId, "ok", <<>>)
          /\ UNCHANGED calls
     ELSE IF tasks = <<>>
     THEN /\ tasks' = <<>>
          /\ Notify(<<>>)
          /\ last' = Result("clearAllTasks", NoId, "ok", <<>>)
          /\ UNCHANGED <<storage, calls>>
     ELSE /\ calls' = Append(calls,
               [op |-> "clearAllTasks", pc |-> "deleteDoc",
                userId |-> getCurrentUserId, todo |-> TaskIds(tasks)])
          /\ NoNotify
          /\ UNCHANGED <<tasks, storage, last>>
  /\ UNCHANGED <<currentUser, nsubs, remote, nextId, now, snap>>

----------------------------------------------------------------------------
(* firebase.js: the Firestore primitives *)

\* the key that comes first under orderBy('createdAt', 'desc')
FirstKey(keys) ==
  CHOOSE k \in keys : \A j \in keys :
    \/ remote[k].createdAt > remote[j].createdAt
    \/ remote[k].createdAt = remote[j].createdAt /\ k >= j

RECURSIVE OrderDesc(_)
OrderDesc(keys) ==
  IF keys = {} THEN <<>>
  ELSE <<FirstKey(keys)>> \o OrderDesc(keys \ {FirstKey(keys)})

\* fetchFirestoreTasks(userId): where ownerId == userId, newest first,
\* each document mapped to { id: d.id, ...d.data() }
FetchFirestoreTasks(userId) ==
  LET keys == OrderDesc({k \in DOMAIN remote : remote[k].ownerId = userId})
  IN [i \in 1..Len(keys) |-> Spread([id |-> keys[i]], remote[keys[i]])]

\* list.find(t => t.id === id), as a list of at most one task
Find(list, id) ==
  IF FindIndex(list, id) > 0 THEN <<list[FindIndex(list, id)]>> ELSE <<>>

\* updateDoc(doc(db, 'tasks', id), fields): fails when no such document
UpdateDoc(id, fields) == [remote EXCEPT ![id] = Spread(@, fields)]

\* deleteDoc(doc(db, 'tasks', id))
DeleteDoc(id) == [k \in DOMAIN remote \ {id} |-> remote[k]]

\* addDoc(collection(db, 'tasks'), data) under a new document key
AddDoc(key, data) ==
  [k \in DOMAIN remote \cup {key} |-> IF k = key THEN data ELSE remote[k]]

\* the rejected promise reaches the caller of the service
Fail(i, op, id) ==
  /\ calls' = Finish(i)
  /\ last' = Result(op, id, "error", <<>>)
  /\ NoNotify
  /\ UNCHANGED <<tasks, remote, nextId>>

Suspended(i, op, pc) ==
  /\ i \in 1..Len(calls)
  /\ calls[i].op = op
  /\ calls[i].pc = pc

Unrelated == UNCHANGED <<currentUser, nsubs, storage, now, snap>>

----------------------------------------------------------------------------
(* loadTasks in firebase mode *)

\* variant: a failed fetch leaves the cache as it was
LoadGetDocsStale(i, ok) ==
  /\ Suspended(i, "loadTasks", "getDocs")
  /\ IF ok
     THEN /\ calls' = [calls EXCEPT ![i] =
                 [op |-> "loadTasks", pc |-> "resume", userId |-> calls[i].userId,
                  list |-> FetchFirestoreTasks(calls[i].userId)]]
          /\ NoNotify
          /\ UNCHANGED <<tasks, last>>
     ELSE /\ calls' = Finish(i)
          /\ tasks' = tasks
          /\ Notify(tasks)
          /\ last' = Result("loadTasks", NoId, "ok", <<>>)
  /\ UNCHANGED <<remote, nextId>>
  /\ Unrelated

LoadGetDocs(i, ok) ==
  /\ Suspended(i, "loadTasks", "getDocs")
  /\ IF ok
     THEN /\ calls' = [calls EXCEPT ![i] =
                 [op |-> "loadTasks", pc |-> "resume", userId |-> calls[i].userId,
                  list |-> FetchFirestoreTasks(calls[i].userId)]]
          /\ NoNotify
          /\ UNCHANGED <<tasks, last>>
     ELSE /\ calls' = Finish(i)
          /\ tasks' = <<>>
          /\ Notify(<<>>)
          /\ last' = Result("loadTasks", NoId, "ok", <<>>)
  /\ UNCHANGED <<remote, nextId>>
  /\ Unrelated

LoadResume(i) ==
  /\ Suspended(i, "loadTasks", "resume")
  /\ calls' = Finish(i)
  /\ tasks' = calls[i].list
  /\ Notify(tasks')
  /\ last' = Result("loadTasks", NoId, "ok", <<>>)
  /\ UNCHANGED <<remote, nextId>>
  /\ Unrelated

----------------------------------------------------------------------------
(* addTask in firebase mode: addFirestoreTask *)

AddDocStep(i, ok) ==
  /\ Suspended(i, "addTask", "addDoc")
  /\ IF ok
     THEN /\ remote' = AddDoc(nextId, calls[i].doc)
          /\ nextId' = nextId + 1
          /\ calls' = [calls EXCEPT ![i] =
                 [op |-> "addTask", pc |-> "resume", userId |-> calls[i].userId,
                  args |-> calls[i].args, doc |-> calls[i].doc, id |-> nextId]]
          /\ NoNotify
          /\ UNCHANGED <<tasks, last>>
     ELSE Fail(i, "addTask", NoId)
  /\ Unrelated

\* the record addFirestoreTask returns reads Date.now() a second time
AddedTask(c) ==
  [id |-> c.id, ownerId |-> c.userId, title |-> c.doc.title, done |-> FALSE,
   createdAt |-> now, dueDate |-> c.doc.dueDate]

AddResume(i) ==
  /\ Suspended(i, "addTask", "resume")
  /\ calls' = Finish(i)
  /\ tasks' = Unshift(tasks, AddedTask(calls[i]))
  /\ Notify(tasks')
  /\ last' = Created(AddedTask(calls[i]), calls[i].args)
  /\ UNCHANGED <<remote, nextId>>
  /\ Unrelated

----------------------------------------------------------------------------
(* toggleTask in firebase mode: toggleFirestoreTask *)

\* variant: a task that is not in the fetched list is reported as an error
ToggleGetDocsThrow(i, ok) ==
  /\ Suspended(i, "toggleTask", "getDocs")
  /\ LET current == Find(FetchFirestoreTasks(calls[i].userId), calls[i].id)
     IN IF ~ok \/ current = <<>>
        THEN Fail(i, "toggleTask", calls[i].id)
        ELSE /\ calls' = [calls EXCEPT ![i] =
                    [op |-> "toggleTask", pc |-> "updateDoc",
                     userId |-> calls[i].userId, id |-> calls[i].id,
                     current |-> current[1]]]
             /\ NoNotify
             /\ UNCHANGED <<tasks, remote, nextId, last>>
  /\ Unrelated

ToggleGetDocs(i, ok) ==
  /\ Suspended(i, "toggleTask", "getDocs")
  /\ LET current == Find(FetchFirestoreTasks(calls[i].userId), calls[i].id)
     IN IF ~ok
        THEN Fail(i, "toggleTask", calls[i].id)
        ELSE IF current = <<>>
        THEN /\ calls' = Finish(i)
             /\ last' = Result("toggleTask", calls[i].id, "null", <<>>)
             /\ NoNotify
             /\ UNCHANGED <<tasks, remote, nextId>>
        ELSE /\ calls' = [calls EXCEPT ![i] =
                    [op |-> "toggleTask", pc |-> "updateDoc",
                     userId |-> calls[i].userId, id |-> calls[i].id,
                     current |-> current[1]]]
             /\ NoNotify
             /\ UNCHANGED <<tasks, remote, nextId, last>>
  /\ Unrelated

ToggleUpdateDoc(i, ok) ==
  /\ Suspended(i, "toggleTask", "updateDoc")
  /\ IF ok /\ calls[i].id \in DOMAIN remote
     THEN /\ remote' = UpdateDoc(calls[i].id, [done |-> ~calls[i].current.done])
          /\ calls' = [calls EXCEPT ![i].pc = "resume"]
          /\ NoNotify
          /\ UNCHANGED <<tasks, nextId, last>>
     ELSE Fail(i, "toggleTask", calls[i].id)
  /\ Unrelated

\* { ...current, done: !current.done }
ToggledTask(current) == Spread(current, [done |-> ~current.done])

\* variant: the cache is updated but nobody is told
ToggleResumeSilent(i) ==
  /\ Suspended(i, "toggleTask", "resume")
  /\ LET updatedTask == ToggledTask(calls[i].current)
         index == FindIndex(tasks, calls[i].id)
     IN /\ tasks' = IF index > 0 THEN ReplaceAt(tasks, index, updatedTask) ELSE tasks
        /\ NoNotify
        /\ last' = Result("toggleTask", calls[i].id, "ok", <<updatedTask>>)
  /\ calls' = Finish(i)
  /\ UNCHANGED <<remote, nextId>>
  /\ Unrelated

ToggleResume(i) ==
  /\ Suspended(i, "toggleTask", "resume")
  /\ LET updatedTask == ToggledTask(calls[i].current)
         index == FindIndex(tasks, calls[i].id)
     IN /\ tasks' = IF index > 0 THEN ReplaceAt(tasks, index, updatedTask) ELSE tasks
        /\ Notify(tasks')
        /\ last' = Result("toggleTask", calls[i].id, "ok", <<updatedTask>>)
  /\ calls' = Finish(i)
  /\ UNCHANGED <<remote, nextId>>
  /\ Unrelated

----------------------------------------------------------------------------
(* updateTask in firebase mode: updateFirestoreTask *)

UpdateDocStep(i, ok) ==
  /\ Suspended(i, "updateTask", "updateDoc")
  /\ IF ok /\ calls[i].id \in DOMAIN remote
     THEN /\ remote' = UpdateDoc(calls[i].id, calls[i].updates)
          /\ calls' = [calls EXCEPT ![i].pc = "getDocs"]
          /\ NoNotify
          /\ UNCHANGED <<tasks, nextId, last>>
     ELSE Fail(i, "updateTask", calls[i].id)
  /\ Unrelated

UpdateGetDocs(i, ok) ==
  /\ Suspended(i, "updateTask", "getDocs")
  /\ LET found == Find(FetchFirestoreTasks(calls[i].userId), calls[i].id)
     IN IF ~ok
        THEN Fail(i, "updateTask", calls[i].id)
        ELSE IF found = <<>>
        THEN /\ calls' = Finish(i)
             /\ last' = Result("updateTask", calls[i].id, "null", <<>>)
             /\ NoNotify
             /\ UNCHANGED <<tasks, remote, nextId>>
        ELSE /\ calls' = [calls EXCEPT ![i] =
                    [op |-> "updateTask", pc |-> "resume",
                     userId |-> calls[i].userId, id |-> calls[i].id,
                     found |-> found[1]]]
             /\ NoNotify
             /\ UNCHANGED <<tasks, remote, nextId, last>>
  /\ Unrelated

UpdateResume(i) ==
  /\ Suspended(i, "updateTask", "resume")
  /\ LET index == FindIndex(tasks, calls[i].id)
     IN /\ tasks' = IF index > 0 THEN ReplaceAt(tasks, index, calls[i].found) ELSE tasks
        /\ Notify(tasks')
        /\ last' = Result("updateTask", calls[i].id, "ok", <<calls[i].found>>)
  /\ calls' = Finish(i)
  /\ UNCHANGED <<remote, nextId>>
  /\ Unrelated

----------------------------------------------------------------------------
(* removeTask and clearAllTasks in firebase mode: removeFirestoreTask *)

RemoveDeleteDoc(i, ok) ==
  /\ Suspended(i, "removeTask", "deleteDoc")
  /\ IF ok
     THEN /\ remote' = DeleteDoc(calls[i].id)
          /\ calls' = [calls EXCEPT ![i].pc = "resume"]
          /\ NoNotify
          /\ UNCHANGED <<tasks, nextId, last>>
     ELSE Fail(i, "removeTask", calls[i].id)
  /\ Unrelated

\* variant: removing a task the cache does not hold is reported as a failure
RemoveResumeStrict(i) ==
  /\ Suspended(i, "removeTask", "resume")
  /\ calls' = Finish(i)
  /\ tasks' = FilterOut(tasks, calls[i].id)
  /\ IF FindIndex(tasks, calls[i].id) > 0
     THEN /\ Notify(tasks')
          /\ last' = Result("removeTask", calls[i].id, "ok", <<>>)
     ELSE /\ NoNotify
          /\ last' = Result("removeTask", calls[i].id, "error", <<>>)
  /\ UNCHANGED <<remote, nextId>>
  /\ Unrelated

RemoveResume(i) ==
  /\ Suspended(i, "removeTask", "resume")
  /\ calls' = Finish(i)
  /\ tasks' = FilterOut(tasks, calls[i].id)
  /\ Notify(tasks')
  /\ last' = Result("removeTask", calls[i].id, "ok", <<>>)
  /\ UNCHANGED <<remote, nextId>>
  /\ Unrelated

\* variant: the cache is emptied whether or not the delete went through
ClearDeleteDocEager(i, ok) ==
  /\ Suspended(i, "clearAllTasks", "deleteDoc")
  /\ IF ok
     THEN /\ remote' = DeleteDoc(Head(calls[i].todo))
          /\ calls' = [calls EXCEPT ![i] =
                 [op |-> "clearAllTasks",
                  pc |-> IF Len(calls[i].todo) = 1 THEN "resume" ELSE "deleteDoc",
                  userId |-> calls[i].userId, todo |-> Tail(calls[i].todo)]]
          /\ NoNotify
          /\ UNCHANGED <<tasks, nextId, last>>
     ELSE /\ calls' = Finish(i)
          /\ last' = Result("clearAllTasks", NoId, "error", <<>>)
          /\ tasks' = <<>>
          /\ Notify(<<>>)
          /\ UNCHANGED <<remote, nextId>>
  /\ Unrelated

\* one iteration of `for (const task of tasks) await removeFirestoreTask(...)`
ClearDeleteDoc(i, ok) ==
  /\ Suspended(i, "clearAllTasks", "deleteDoc")
  /\ IF ok
     THEN /\ remote' = DeleteDoc(Head(calls[i].todo))
          /\ calls' = [calls EXCEPT ![i] =
                 [op |-> "clearAllTasks",
                  pc |-> IF Len(calls[i].todo) = 1 THEN "resume" ELSE "deleteDoc",
                  userId |-> calls[i].userId, todo |-> Tail(calls[i].todo)]]
          /\ NoNotify
          /\ UNCHANGED <<tasks, nextId, last>>
     ELSE Fail(i, "clearAllTasks", NoId)
  /\ Unrelated

ClearResume(i) ==
  /\ Suspended(i, "clearAllTasks", "resume")
  /\ calls' = Finish(i)
  /\ tasks' = <<>>
  /\ Notify(<<>>)
  /\ last' = Result("clearAllTasks", NoId, "ok", <<>>)
  /\ UNCHANGED <<remote, nextId>>
  /\ Unrelated

----------------------------------------------------------------------------
(* tasks.js: onTasksChange and getTasks *)

\* registers the callback; it is called at once when the cache is non-empty
OnTasksChange ==
  /\ nsubs < MaxSubs
  /\ nsubs' = nsubs + 1
  /\ cbCount' = IF Len(tasks) > 0 THEN 1 ELSE 0
  /\ cbArg' = IF Len(tasks) > 0 THEN tasks ELSE <<>>
  /\ UNCHANGED <<currentUser, tasks, storage, remote, nextId, now, calls,
                 last, snap>>

\* getTasks(): `[...tasks]`, a new array whose elements are the cache's own
\* task objects; snap[k] = j says element k is the object at tasks[j]
GetTasks ==
  /\ snap = <<>>
  /\ tasks # <<>>
  /\ snap' = [j \in 1..Len(tasks) |-> j]
  /\ NoNotify
  /\ UNCHANGED <<currentUser, tasks, nsubs, storage, remote, nextId, now, calls, last>>

\* what the holder of the array can do with it: snapshot.push({...}) (0 is an
\* object of the caller's own), snapshot.pop(), snapshot.reverse(), and
\* snapshot[k].done = !snapshot[k].done, a write to the object itself
SnapPush ==
  /\ snap # <<>>
  /\ Len(snap) < MaxSnap
  /\ snap' = Append(snap, 0)
  /\ NoNotify
  /\ UNCHANGED <<currentUser, tasks, nsubs, storage, remote, nextId, now, calls, last>>

SnapPop ==
  /\ Len(snap) > 1
  /\ snap' = SubSeq(snap, 1, Len(snap) - 1)
  /\ NoNotify
  /\ UNCHANGED <<currentUser, tasks, nsubs, storage, remote, nextId, now, calls, last>>

SnapReverse ==
  /\ Len(snap) > 1
  /\ snap' = [k \in 1..Len(snap) |-> snap[Len(snap) + 1 - k]]
  /\ NoNotify
  /\ UNCHANGED <<currentUser, tasks, nsubs, storage, remote, nextId, now, calls, last>>

SnapSetDone(k) ==
  /\ k \in 1..Len(snap)
  /\ snap[k] # 0
  /\ tasks' = [tasks EXCEPT ![snap[k]].done = ~tasks[snap[k]].done]
  /\ NoNotify
  /\ UNCHANGED <<currentUser, nsubs, storage, remote, nextId, now, calls, last, snap>>

\* the holder lets go of the array
SnapDrop ==
  /\ snap # <<>>
  /\ snap' = <<>>
  /\ NoNotify
  /\ UNCHANGED <<currentUser, tasks, nsubs, storage, remote, nextId, now, calls, last>>

----------------------------------------------------------------------------
(* The service used by one caller that awaits each call before the next *)

Quiet == calls = <<>>

IdInputs == 0..(nextId - 1)

UpdateInputs == {[done |-> TRUE]}

\* a step in which removeTask(id) returns to its caller
RemoveReturns(id) ==
  \/ /\ getCurrentUserMode = "guest"
     /\ \E writeOk \in BOOLEAN : RemoveTask(id, writeOk)
  \/ \E i \in 1..Len(calls) :
       /\ Suspended(i, "removeTask", "resume")
       /\ calls[i].id = id
       /\ RemoveResume(i)

\* the caller's record: `made` lists the creations made in a row since the
\* cache was empty (extended by a successful addTask, restarted by anything
\* else); `again` says that the step returned a removeTask which repeats the
\* successful removeTask before it
Observe ==
  LET again == \E id \in IdInputs :
                 last = Result("removeTask", id, "ok", <<>>) /\ RemoveReturns(id)
  IN hist' =
       IF last'.op = "addTask" /\ last'.outcome = "ok" /\ last' # last
       THEN IF hist.valid
            THEN [valid |-> TRUE, made |-> Append(hist.made, last'.value[1]),
                  again |-> FALSE]
            ELSE [hist EXCEPT !.again = FALSE]
       ELSE IF tasks' # tasks \/ last' # last \/ currentUser' # currentUser
       THEN [valid |-> tasks' = <<>>, made |-> <<>>, again |-> again]
       ELSE [hist EXCEPT !.again = again]

\* one caller, within one reading of the clock
Next ==
  \/ OnTasksChange /\ Observe
  \/ Quiet /\ LoadTasks /\ Observe
  \/ Quiet /\ EnterAsGuest /\ Observe
  \/ \E uid \in FirebaseUids : Quiet /\ GoogleSignIn(uid) /\ Observe
  \/ Quiet /\ SignOut /\ Observe
  \/ \E title \in TitleInputs, writeOk \in BOOLEAN :
       Quiet /\ AddTask(title, NoDue, "other", "medium", "pending", writeOk) /\ Observe
  \/ \E id \in IdInputs, writeOk \in BOOLEAN :
       Quiet /\ ToggleTask(id, writeOk) /\ Observe
  \/ \E id \in IdInputs, updates \in UpdateInputs, writeOk \in BOOLEAN :
       Quiet /\ UpdateTask(id, updates, writeOk) /\ Observe
  \/ \E id \in IdInputs, writeOk \in BOOLEAN :
       Quiet /\ RemoveTask(id, writeOk) /\ Observe
  \/ Quiet /\ ClearAllTasks /\ Observe
  \/ \E i \in 1..Len(calls) : LoadResume(i) /\ Observe
  \/ \E i \in 1..Len(calls) : AddResume(i) /\ Observe
  \/ \E i \in 1..Len(calls) : ToggleResume(i) /\ Observe
  \/ \E i \in 1..Len(calls) : UpdateResume(i) /\ Observe
  \/ \E i \in 1..Len(calls) : RemoveResume(i) /\ Observe
  \/ \E i \in 1..Len(calls) : ClearResume(i) /\ Observe
  \/ \E i \in 1..Len(calls), ok \in BOOLEAN : LoadGetDocs(i, ok) /\ Observe
  \/ \E i \in 1..Len(calls), ok \in BOOLEAN : AddDocStep(i, ok) /\ Observe
  \/ \E i \in 1..Len(calls), ok \in BOOLEAN : ToggleGetDocs(i, ok) /\ Observe
  \/ \E i \in 1..Len(calls), ok \in BOOLEAN : ToggleUpdateDoc(i, ok) /\ Observe
  \/ \E i \in 1..Len(calls), ok \in BOOLEAN : UpdateDocStep(i, ok) /\ Observe
  \/ \E i \in 1..Len(calls), ok \in BOOLEAN : UpdateGetDocs(i, ok) /\ Observe
  \/ \E i \in 1..Len(calls), ok \in BOOLEAN : RemoveDeleteDoc(i, ok) /\ Observe
  \/ \E i \in 1..Len(calls), ok \in BOOLEAN : ClearDeleteDoc(i, ok) /\ Observe

Spec == Init /\ [][Next]_vars

----------------------------------------------------------------------------
(* Creation followed by a reload, with every argument of addTask varied and
   the clock running between the steps *)

CategoryInputs == {"other", "work"}
PriorityInputs == {"medium", "high"}
StatusInputs == {"pending", "completed"}

NextRoundTrip ==
  \/ Tick /\ Observe
  \/ Quiet /\ EnterAsGuest /\ Observe
  \/ \E uid \in FirebaseUids : Quiet /\ GoogleSignIn(uid) /\ Observe
  \/ Quiet /\ LoadTasks /\ Observe
  \/ \E dueDate \in DueInputs, category \in CategoryInputs,
        priority \in PriorityInputs, status \in StatusInputs :
       Quiet /\ AddTask(BuyMilk, dueDate, category, priority, status, TRUE) /\ Observe
  \/ \E i \in 1..Len(calls) : LoadGetDocs(i, TRUE) /\ Observe
  \/ \E i \in 1..Len(calls) : LoadResume(i) /\ Observe
  \/ \E i \in 1..Len(calls) : AddDocStep(i, TRUE) /\ Observe
  \/ \E i \in 1..Len(calls) : AddResume(i) /\ Observe

SpecRoundTrip == Init /\ [][NextRoundTrip]_vars

----------------------------------------------------------------------------
(* A guest session whose caller takes the list with getTasks and changes what
   it was given; the service is called only while no such array is held *)

NextSnap ==
  \/ snap = <<>> /\ EnterAsGuest /\ Observe
  \/ snap = <<>> /\ AddTask(BuyMilk, NoDue, "other", "medium", "pending", TRUE) /\ Observe
  \/ \E id \in IdInputs : snap = <<>> /\ ToggleTask(id, TRUE) /\ Observe
  \/ \E id \in IdInputs : snap = <<>> /\ RemoveTask(id, TRUE) /\ Observe
  \/ GetTasks /\ Observe
  \/ SnapPush /\ Observe
  \/ SnapPop /\ Observe
  \/ SnapReverse /\ Observe
  \/ \E k \in 1..MaxSnap : SnapSetDone(k) /\ Observe
  \/ SnapDrop /\ Observe

SpecSnap == Init /\ [][NextSnap]_vars

----------------------------------------------------------------------------
(* tasks.js: getTasksStats, over a cache of dated tasks *)

\* new Date(t).toDateString(): the calendar day of an instant
DateString(t) == t \div DayMs

\* `t.dueDate &&`: null, undefined and 0 are falsy
HasDueDate(t) == "dueDate" \in DOMAIN t /\ t.dueDate # NoDue /\ t.dueDate # 0

\* getTasksStats() when Date.now() reads `at`
getTasksStats(list, at) ==
  LET CountIf(p(_)) == Len(SelectSeq(list, p))
      total == Len(list)
      completed == CountIf(LAMBDA t : t.done)
      threeDaysFromNow == at + 3 * DayMs
  IN [total |-> total,
      completed |-> completed,
      pending |-> total - completed,
      overdue |-> CountIf(LAMBDA t :
                    ~t.done /\ HasDueDate(t) /\ t.dueDate < at),
      dueToday |-> CountIf(LAMBDA t :
                    ~t.done /\ HasDueDate(t)
                    /\ DateString(t.dueDate) = DateString(at)),
      dueSoon |-> CountIf(LAMBDA t :
                    ~t.done /\ HasDueDate(t)
                    /\ t.dueDate > at /\ t.dueDate <= threeDaysFromNow)]

\* the day the clock is in, and the instants of a day
Today == 2
DayTimes(day) == (day * DayMs)..(day * DayMs + DayMs - 1)

\* a task as fetchFirestoreTasks returns it
DatedTask(id, done, dueDate) ==
  [id |-> id, ownerId |-> 101, title |-> BuyMilk, done |-> done,
   createdAt |-> id, dueDate |-> dueDate]

\* caches of one open task due yesterday, one due today, one due in two
\* days, and one done task, at every time of day
StatsCaches ==
  { <<DatedTask(4, TRUE, d4), DatedTask(3, FALSE, d3),
      DatedTask(2, FALSE, d2), DatedTask(1, FALSE, d1)>> :
      d1 \in DayTimes(Today - 1), d2 \in DayTimes(Today),
      d3 \in DayTimes(Today + 2), d4 \in {NoDue} \cup DayTimes(Today - 1) }

\* the documents a fetched list came from
Documents(list) ==
  [k \in {list[j].id : j \in 1..Len(list)} |->
     LET t == list[FindIndex(list, k)]
     IN [f \in DOMAIN t \ {"id"} |-> t[f]]]

\* a firebase session that has loaded such a cache
InitStats ==
  /\ currentUser = [id |-> 101, mode |-> "firebase"]
  /\ tasks \in StatsCaches
  /\ remote = Documents(tasks)
  /\ now = Today * DayMs
  /\ nsubs = 1
  /\ storage = <<>>
  /\ nextId = 5
  /\ calls = <<>>
  /\ last = Result("loadTasks", NoId, "ok", <<>>)
  /\ cbCount = 1
  /\ cbArg = tasks
  /\ snap = <<>>
  /\ hist = [valid |-> FALSE, made |-> <<>>, again |-> FALSE]

\* the clock advances within the day
TickToday ==
  /\ DateString(now + 1) = Today
  /\ now' = now + 1
  /\ NoNotify
  /\ UNCHANGED <<currentUser, tasks, nsubs, storage, remote, nextId, calls,
                 last, snap>>

GetTasksStats ==
  /\ last' = Result("getTasksStats", NoId, "ok", <<getTasksStats(tasks, now)>>)
  /\ NoNotify
  /\ UNCHANGED <<currentUser, tasks, nsubs, storage, remote, nextId, now,
                 calls, snap>>

NextStats ==
  \/ TickToday /\ Observe
  \/ GetTasksStats /\ Observe

SpecStats == InitStats /\ [][NextStats]_vars

----------------------------------------------------------------------------
(* LocalStore.getStats, in the module tasks.js imports and in the variant
   that counts due dates, next to getTasksStats in a guest session *)

\* localStore.js getStats(userId): three counts over load(userId)
LocalStoreGetStats(userId) ==
  LET list == LocalStoreLoad(userId)
      total == Len(list)
      completed == Len(SelectSeq(list, LAMBDA t : t.done))
  IN [total |-> total, completed |-> completed, pending |-> total - completed]

\* _isDueSoon(timestamp) when Date.now() reads `at`: within the next 24 hours
IsDueSoon(timestamp, at) == timestamp > at /\ timestamp <= at + DayMs

\* the variant's getStats(userId) when Date.now() reads `at`
LocalStoreGetStatsDated(userId, at) ==
  LET list == LocalStoreLoad(userId)
      CountIf(p(_)) == Len(SelectSeq(list, p))
      total == Len(list)
      completed == CountIf(LAMBDA t : t.done)
  IN [total |-> total,
      completed |-> completed,
      pending |-> total - completed,
      overdue |-> CountIf(LAMBDA t :
                    ~t.done /\ HasDueDate(t) /\ t.dueDate < at),
      dueToday |-> CountIf(LAMBDA t :
                    ~t.done /\ HasDueDate(t)
                    /\ DateString(at) = DateString(t.dueDate)),
      dueSoon |-> CountIf(LAMBDA t :
                    ~t.done /\ HasDueDate(t) /\ IsDueSoon(t.dueDate, at))]

\* a guest's stored list: the dated tasks without an ownerId
GuestStatsCaches ==
  { [k \in 1..Len(c) |-> [f \in DOMAIN c[k] \ {"ownerId"} |-> c[k][f]]] :
      c \in StatsCaches }

\* a guest session that has loaded such a list from the browser store
InitStoreStats ==
  /\ currentUser = [id |-> 1, mode |-> "guest"]
  /\ tasks \in GuestStatsCaches
  /\ storage = LocalStoreSave(<<>>, 1, tasks, TRUE)
  /\ remote = <<>>
  /\ now = Today * DayMs
  /\ nsubs = 1
  /\ nextId = 5
  /\ calls = <<>>
  /\ last = Result("loadTasks", NoId, "ok", <<>>)
  /\ cbCount = 1
  /\ cbArg = tasks
  /\ snap = <<>>
  /\ hist = [valid |-> FALSE, made |-> <<>>, again |-> FALSE]

GetStats ==
  /\ last' = Result("getStats", NoId, "ok", <<LocalStoreGetStats(getCurrentUserId)>>)
  /\ NoNotify
  /\ UNCHANGED <<currentUser, tasks, nsubs, storage, remote, nextId, now,
                 calls, snap>>

GetStatsDated ==
  /\ last' = Result("getStats", NoId, "ok",
                    <<LocalStoreGetStatsDated(getCurrentUserId, now)>>)
  /\ NoNotify
  /\ UNCHANGED <<currentUser, tasks, nsubs, storage, remote, nextId, now,
                 calls, snap>>

NextStoreStats ==
  \/ TickToday /\ Observe
  \/ GetTasksStats /\ Observe
  \/ GetStats /\ Observe
  \/ GetStatsDated /\ Observe
  \/ \E id \in 1..4 : ToggleTask(id, TRUE) /\ Observe

SpecStoreStats == InitStoreStats /\ [][NextStoreStats]_vars

----------------------------------------------------------------------------
(* tasks.js: filterTasks *)

\* const priorityOrder = { urgent: 4, high: 3, medium: 2, low: 1 }
PriorityOrder == [urgent |-> 4, high |-> 3, medium |-> 2, low |-> 1]

\* priorityOrder[t.priority] is a number (otherwise it is undefined)
Ranked(t) == "priority" \in DOMAIN t /\ t.priority \in DOMAIN PriorityOrder

\* (a, b) => priorityOrder[b.priority] - priorityOrder[a.priority]; with an
\* undefined operand the difference is NaN, which sort reads as +0
ByPriority(a, b) ==
  IF Ranked(a) /\ Ranked(b)
  THEN PriorityOrder[b.priority] - PriorityOrder[a.priority]
  ELSE 0

\* (a, b) => b.createdAt - a.createdAt
ByCreatedAt(a, b) == b.createdAt - a.createdAt

\* the dueDate comparator: tasks without a due date last
ByDueDate(a, b) ==
  IF ~HasDueDate(a) /\ ~HasDueDate(b) THEN 0
  ELSE IF ~HasDueDate(a) THEN 1
  ELSE IF ~HasDueDate(b) THEN -1
  ELSE a.dueDate - b.dueDate

Orderings(n) ==
  {p \in [1..n -> 1..n] : \A i, j \in 1..n : p[i] = p[j] => i = j}

\* Array.prototype.sort(cmp), a stable merge or insertion sort: neighbours in
\* the result are in order, and neighbours that compare equal keep their
\* original order.  For a consistent comparator this is the one stably sorted
\* list; for an inconsistent one the order is implementation-defined and
\* every list of this kind is a possible result.
SortOutcomes(list, sortBy) ==
  LET cmp(a, b) == IF sortBy = "createdAt" THEN ByCreatedAt(a, b)
                   ELSE IF sortBy = "priority" THEN ByPriority(a, b)
                   ELSE ByDueDate(a, b)
  IN
  { [k \in 1..Len(list) |-> list[p[k]]] : p \in
      { q \in Orderings(Len(list)) :
          \A k \in 1..(Len(list) - 1) :
            \/ cmp(list[q[k]], list[q[k + 1]]) < 0
            \/ cmp(list[q[k]], list[q[k + 1]]) = 0 /\ q[k] < q[k + 1] } }

\* the equality filters of filterTasks (an absent criterion is skipped)
Filtered(list, filters) ==
  SelectSeq(list, LAMBDA t :
    \A f \in DOMAIN filters \cap {"done", "category", "priority", "status"} :
      f \in DOMAIN t /\ t[f] = filters[f])

\* the lists filterTasks(filters) can return
filterTasks(list, filters) ==
  LET filteredTasks == Filtered(list, filters)
      sortBy == IF "sortBy" \in DOMAIN filters THEN filters.sortBy ELSE "none"
  IN IF sortBy \in {"createdAt", "priority", "dueDate"}
     THEN SortOutcomes(filteredTasks, sortBy)
     ELSE {filteredTasks}

\* the priorities a guest's task can carry after updateTask(id, {priority})
\* ("none": the property is absent, as addTask leaves it)
PriorityValues == {"none", "low", "medium", "high", "urgent"}

\* a guest's task, created by LocalStore.add and given a priority or not
PriorityTask(id, priority) ==
  IF priority = "none"
  THEN [id |-> id, title |-> BuyMilk, done |-> FALSE, createdAt |-> 1]
  ELSE [id |-> id, title |-> BuyMilk, done |-> FALSE, createdAt |-> 1,
        priority |-> priority]

PriorityCache(ps) == [k \in 1..Len(ps) |-> PriorityTask(Len(ps) + 1 - k, ps[k])]

\* caches of up to MaxSorted tasks with every priority, and the cache with
\* the priorities low, urgent, medium, high
PriorityCaches ==
  {PriorityCache(<<"low", "urgent", "medium", "high">>)} \cup
  UNION { {PriorityCache(ps) : ps \in [1..n -> PriorityValues]} : n \in 1..MaxSorted }

\* a guest session that has loaded such a cache
InitFilter ==
  /\ currentUser = [id |-> 1, mode |-> "guest"]
  /\ tasks \in PriorityCaches
  /\ storage = LocalStoreSave(<<>>, 1, tasks, TRUE)
  /\ remote = <<>>
  /\ now = 1
  /\ nsubs = 1
  /\ nextId = Len(tasks) + 1
  /\ calls = <<>>
  /\ last = Result("loadTasks", NoId, "ok", <<>>)
  /\ cbCount = 1
  /\ cbArg = tasks
  /\ snap = <<>>
  /\ hist = [valid |-> FALSE, made |-> <<>>, again |-> FALSE]

FilterTasks(filters) ==
  /\ \E result \in filterTasks(tasks, filters) :
       last' = Result("filterTasks", NoId, "ok", result)
  /\ NoNotify
  /\ UNCHANGED <<currentUser, tasks, nsubs, storage, remote, nextId, now,
                 calls, snap>>

NextFilter ==
  \/ FilterTasks([sortBy |-> "priority"]) /\ Observe
  \/ \E id \in IdInputs : ToggleTask(id, TRUE) /\ Observe

SpecFilter == InitFilter /\ [][NextFilter]_vars

----------------------------------------------------------------------------
(* updateTask with the partial-field objects a caller can pass *)

\* the ids of TASK_CATEGORIES, TASK_PRIORITIES and TASK_STATUSES
TaskCategories ==
  {"work", "personal", "health", "finance", "home", "study", "shopping",
   "travel", "other"}
TaskPriorities == {"low", "medium", "high", "urgent"}
TaskStatuses == {"pending", "completed", "cancelled"}

\* values a caller can put into `updates`
OtherId == 9
OtherOwner == 102
OtherInstant == 0

FieldUpdates ==
  { [title |-> <<" ">>], [id |-> OtherId], [ownerId |-> OtherOwner],
    [createdAt |-> OtherInstant], [category |-> "bogus"] }

NextUpdate ==
  \/ Quiet /\ EnterAsGuest /\ Observe
  \/ \E uid \in FirebaseUids : Quiet /\ GoogleSignIn(uid) /\ Observe
  \/ Quiet /\ LoadTasks /\ Observe
  \/ /\ Quiet
     /\ nextId <= MaxUpdated
     /\ AddTask(BuyMilk, NoDue, "other", "medium", "pending", TRUE)
     /\ Observe
  \/ \E id \in IdInputs : Quiet /\ ToggleTask(id, TRUE) /\ Observe
  \/ \E id \in IdInputs, updates \in FieldUpdates :
       Quiet /\ UpdateTask(id, updates, TRUE) /\ Observe
  \/ \E i \in 1..Len(calls) : LoadGetDocs(i, TRUE) /\ Observe
  \/ \E i \in 1..Len(calls) : LoadResume(i) /\ Observe
  \/ \E i \in 1..Len(calls) : AddDocStep(i, TRUE) /\ Observe
  \/ \E i \in 1..Len(calls) : AddResume(i) /\ Observe
  \/ \E i \in 1..Len(calls) : ToggleGetDocs(i, TRUE) /\ Observe
  \/ \E i \in 1..Len(calls) : ToggleUpdateDoc(i, TRUE) /\ Observe
  \/ \E i \in 1..Len(calls) : ToggleResume(i) /\ Observe
  \/ \E i \in 1..Len(calls) : UpdateDocStep(i, TRUE) /\ Observe
  \/ \E i \in 1..Len(calls) : UpdateGetDocs(i, TRUE) /\ Observe
  \/ \E i \in 1..Len(calls) : UpdateResume(i) /\ Observe

SpecUpdate == Init /\ [][NextUpdate]_vars

----------------------------------------------------------------------------
(* Two federated owners sharing the tasks collection: each signs in in turn
   and calls the service with any id, its own or the other owner's *)

Owners == FirebaseUids \cup {OtherOwner}

NextOwners ==
  \/ \E uid \in Owners : Quiet /\ GoogleSignIn(uid) /\ Observe
  \/ \E writeOk \in BOOLEAN :
       Quiet /\ AddTask(BuyMilk, NoDue, "other", "medium", "pending", writeOk) /\ Observe
  \/ \E id \in IdInputs, writeOk \in BOOLEAN :
       Quiet /\ ToggleTask(id, writeOk) /\ Observe
  \/ \E id \in IdInputs, updates \in UpdateInputs, writeOk \in BOOLEAN :
       Quiet /\ UpdateTask(id, updates, writeOk) /\ Observe
  \/ \E id \in IdInputs, writeOk \in BOOLEAN :
       Quiet /\ RemoveTask(id, writeOk) /\ Observe
  \/ \E i \in 1..Len(calls), ok \in BOOLEAN : LoadGetDocs(i, ok) /\ Observe
  \/ \E i \in 1..Len(calls) : LoadResume(i) /\ Observe
  \/ \E i \in 1..Len(calls), ok \in BOOLEAN : AddDocStep(i, ok) /\ Observe
  \/ \E i \in 1..Len(calls) : AddResume(i) /\ Observe
  \/ \E i \in 1..Len(calls), ok \in BOOLEAN : ToggleGetDocs(i, ok) /\ Observe
  \/ \E i \in 1..Len(calls), ok \in BOOLEAN : ToggleUpdateDoc(i, ok) /\ Observe
  \/ \E i \in 1..Len(calls) : ToggleResume(i) /\ Observe
  \/ \E i \in 1..Len(calls), ok \in BOOLEAN : UpdateDocStep(i, ok) /\ Observe
  \/ \E i \in 1..Len(calls), ok \in BOOLEAN : UpdateGetDocs(i, ok) /\ Observe
  \/ \E i \in 1..Len(calls) : UpdateResume(i) /\ Observe
  \/ \E i \in 1..Len(calls), ok \in BOOLEAN : RemoveDeleteDoc(i, ok) /\ Observe
  \/ \E i \in 1..Len(calls) : RemoveResume(i) /\ Observe

SpecOwners == Init /\ [][NextOwners]_vars

----------------------------------------------------------------------------
(* A firebase session whose caller does not await: a call is issued while
   others are suspended, every backend request succeeds, and the suspended
   calls resume in any order *)

MaxCalls == 2

CanIssue == currentUser # NullUser /\ Len(calls) < MaxCalls

NextInterleaved ==
  \/ \E uid \in FirebaseUids :
       currentUser = NullUser /\ Quiet /\ GoogleSignIn(uid) /\ Observe
  \/ CanIssue /\ LoadTasks /\ Observe
  \/ CanIssue /\ AddTask(BuyMilk, NoDue, "other", "medium", "pending", TRUE) /\ Observe
  \/ \E id \in IdInputs : CanIssue /\ ToggleTask(id, TRUE) /\ Observe
  \/ \E id \in IdInputs, updates \in UpdateInputs :
       CanIssue /\ UpdateTask(id, updates, TRUE) /\ Observe
  \/ \E id \in IdInputs : CanIssue /\ RemoveTask(id, TRUE) /\ Observe
  \/ \E i \in 1..Len(calls) : LoadGetDocs(i, TRUE) /\ Observe
  \/ \E i \in 1..Len(calls) : LoadResume(i) /\ Observe
  \/ \E i \in 1..Len(calls) : AddDocStep(i, TRUE) /\ Observe
  \/ \E i \in 1..Len(calls) : AddResume(i) /\ Observe
  \/ \E i \in 1..Len(calls) : ToggleGetDocs(i, TRUE) /\ Observe
  \/ \E i \in 1..Len(calls) :
       /\ Suspended(i, "toggleTask", "updateDoc")
       /\ calls[i].id \in DOMAIN remote
       /\ ToggleUpdateDoc(i, TRUE)
       /\ Observe
  \/ \E i \in 1..Len(calls) : ToggleResume(i) /\ Observe
  \/ \E i \in 1..Len(calls) :
       /\ Suspended(i, "updateTask", "updateDoc")
       /\ calls[i].id \in DOMAIN remote
       /\ UpdateDocStep(i, TRUE)
       /\ Observe
  \/ \E i \in 1..Len(calls) : UpdateGetDocs(i, TRUE) /\ Observe
  \/ \E i \in 1..Len(calls) : UpdateResume(i) /\ Observe
  \/ \E i \in 1..Len(calls) : RemoveDeleteDoc(i, TRUE) /\ Observe
  \/ \E i \in 1..Len(calls) : RemoveResume(i) /\ Observe

SpecInterleaved == Init /\ [][NextInterleaved]_vars

----------------------------------------------------------------------------
(* A firebase session that creates tasks, back-to-back or not, while the
   clock runs, and loads only while no call is suspended *)

NextCreates ==
  \/ Tick /\ Observe
  \/ \E uid \in FirebaseUids :
       currentUser = NullUser /\ Quiet /\ GoogleSignIn(uid) /\ Observe
  \/ currentUser # NullUser /\ Quiet /\ LoadTasks /\ Observe
  \/ \E i \in 1..Len(calls) : LoadGetDocs(i, TRUE) /\ Observe
  \/ \E i \in 1..Len(calls) : LoadResume(i) /\ Observe
  \/ /\ CanIssue
     /\ \A i \in 1..Len(calls) : calls[i].op = "addTask"
     /\ AddTask(BuyMilk, NoDue, "other", "medium", "pending", TRUE)
     /\ Observe
  \/ \E i \in 1..Len(calls), ok \in BOOLEAN : AddDocStep(i, ok) /\ Observe
  \/ \E i \in 1..Len(calls) : AddResume(i) /\ Observe

SpecCreates == Init /\ [][NextCreates]_vars

----------------------------------------------------------------------------
(* A firebase session whose caller has called toggleTask(id) twice in a row
   on a loaded list of open tasks: both calls are suspended at their fetch,
   and their reads and writes interleave in every way *)

\* the document addFirestoreTask wrote for an open task
OpenDocument ==
  [ownerId |-> 101, title |-> BuyMilk, done |-> FALSE, createdAt |-> 1,
   dueDate |-> NoDue]

\* the call toggleTask(id) leaves suspended
ToggleCall(id) ==
  [op |-> "toggleTask", pc |-> "getDocs", userId |-> 101, id |-> id]

InitToggles ==
  /\ currentUser = [id |-> 101, mode |-> "firebase"]
  /\ \E n \in 1..MaxTasks : remote = [k \in 1..n |-> OpenDocument]
  /\ tasks = FetchFirestoreTasks(101)
  /\ nextId = Len(tasks) + 1
  /\ \E id \in 0..Len(tasks) : calls = <<ToggleCall(id), ToggleCall(id)>>
  /\ now = 1
  /\ nsubs = 1
  /\ storage = <<>>
  /\ last = Result("loadTasks", NoId, "ok", <<>>)
  /\ cbCount = 0
  /\ cbArg = <<>>
  /\ snap = <<>>
  /\ hist = [valid |-> FALSE, made |-> <<>>, again |-> FALSE]

NextToggles ==
  \/ Tick /\ Observe
  \/ \E i \in 1..Len(calls) : ToggleGetDocs(i, TRUE) /\ Observe
  \/ \E i \in 1..Len(calls) : ToggleUpdateDoc(i, TRUE) /\ Observe
  \/ \E i \in 1..Len(calls) : ToggleResume(i) /\ Observe

SpecToggles == InitToggles /\ [][NextToggles]_vars

----------------------------------------------------------------------------
(* Logout: the 'user-logout' event runs handleUserLogout, which calls
   handleSignOut, which calls setCurrentUser(null), which runs the auth-state
   callback of main.js, which for an absent user calls handleUserLogout.
   The activations are frames in `calls`, the innermost last; a
   handleUserLogout whose handleSignOut has returned waits there for its
   continuation.  The engine gives up (RangeError) when a call would nest
   deeper than MaxStack frames. *)

MaxStack == 6

LogoutFrame(pc) == [op |-> "handleUserLogout", pc |-> pc]

SignOutFrame(pc) == [op |-> "handleSignOut", pc |-> pc]

\* the innermost running activation is this handleSignOut
Running(i, pc) ==
  /\ Suspended(i, "handleSignOut", pc)
  /\ \A j \in (i + 1)..Len(calls) : calls[j].op # "handleSignOut"

LogoutUnrelated ==
  UNCHANGED <<tasks, nsubs, storage, remote, nextId, now, snap>>

\* the event handler: handleUserLogout up to `await handleSignOut()`, and
\* handleSignOut up to its await (firebase) or its setCurrentUser (guest)
UserLogout ==
  /\ currentUser # NullUser
  /\ calls' = <<LogoutFrame("await"),
                SignOutFrame(IF getCurrentUserMode = "firebase"
                             THEN "signOut" ELSE "setCurrentUser")>>
  /\ NoNotify
  /\ UNCHANGED <<currentUser, last>>
  /\ LogoutUnrelated

\* await Firebase.helpers.signOut(auth) settles; a rejection is caught
FirebaseSignOut(i) ==
  /\ Running(i, "signOut")
  /\ calls' = [calls EXCEPT ![i].pc = "setCurrentUser"]
  /\ NoNotify
  /\ UNCHANGED <<currentUser, last>>
  /\ LogoutUnrelated

\* setCurrentUser(null): the callback calls handleUserLogout, which calls
\* handleSignOut, which finds no firebase user and goes on to setCurrentUser
SetCurrentUserNull(i) ==
  /\ Running(i, "setCurrentUser")
  /\ currentUser' = NullUser
  /\ IF Len(calls) + 2 <= MaxStack
     THEN /\ calls' = [calls EXCEPT ![i].pc = "toast"]
                        \o <<LogoutFrame("await"), SignOutFrame("setCurrentUser")>>
          /\ UNCHANGED last
     ELSE /\ calls' = [calls EXCEPT ![i].pc = "toast"]
          /\ last' = Result("handleUserLogout", NoId, "RangeError", <<>>)
  /\ NoNotify
  /\ LogoutUnrelated

\* toast('Sesion cerrada') and the return of handleSignOut: the
\* handleUserLogout that awaits it is left with its continuation
SignOutReturn(i) ==
  /\ Running(i, "toast")
  /\ i > 1
  /\ calls' = SubSeq([calls EXCEPT ![i - 1].pc = "resume"], 1, i - 1)
                 \o SubSeq(calls, i + 1, Len(calls))
  /\ NoNotify
  /\ UNCHANGED <<currentUser, last>>
  /\ LogoutUnrelated

\* the rest of handleUserLogout, run once nothing else is running:
\* the views are updated and clearUserData does nothing
LogoutResume(i) ==
  /\ Suspended(i, "handleUserLogout", "resume")
  /\ \A j \in 1..Len(calls) : calls[j].op # "handleSignOut"
  /\ calls' = Finish(i)
  /\ last' = Result("handleUserLogout", NoId, "ok", <<>>)
  /\ NoNotify
  /\ UNCHANGED currentUser
  /\ LogoutUnrelated

NextLogout ==
  \/ Quiet /\ EnterAsGuest /\ Observe
  \/ \E uid \in FirebaseUids : Quiet /\ GoogleSignIn(uid) /\ Observe
  \/ Quiet /\ AddTask(BuyMilk, NoDue, "other", "medium", "pending", TRUE) /\ Observe
  \/ \E id \in IdInputs : Quiet /\ ToggleTask(id, TRUE) /\ Observe
  \/ \E i \in 1..Len(calls) : LoadGetDocs(i, TRUE) /\ Observe
  \/ \E i \in 1..Len(calls) : LoadResume(i) /\ Observe
  \/ \E i \in 1..Len(calls) : AddDocStep(i, TRUE) /\ Observe
  \/ \E i \in 1..Len(calls) : AddResume(i) /\ Observe
  \/ \E i \in 1..Len(calls) : ToggleGetDocs(i, TRUE) /\ Observe
  \/ \E i \in 1..Len(calls) : ToggleUpdateDoc(i, TRUE) /\ Observe
  \/ \E i \in 1..Len(calls) : ToggleResume(i) /\ Observe
  \/ Quiet /\ UserLogout /\ Observe
  \/ \E i \in 1..Len(calls) : FirebaseSignOut(i) /\ Observe
  \/ \E i \in 1..Len(calls) : SetCurrentUserNull(i) /\ Observe
  \/ \E i \in 1..Len(calls) : SignOutReturn(i) /\ Observe
  \/ \E i \in 1..Len(calls) : LogoutResume(i) /\ Observe

SpecLogout == Init /\ [][NextLogout]_vars

----------------------------------------------------------------------------
(* taskConfig: the descriptor tables and their lookups, applied to the
   category, priority and status of a cached task (the icons are left out) *)

TASK_CATEGORIES ==
  << [id |-> "work", name |-> "Trabajo", color |-> "bg-blue-500"],
     [id |-> "personal", name |-> "Personal", color |-> "bg-green-500"],
     [id |-> "health", name |-> "Salud", color |-> "bg-red-500"],
     [id |-> "finance", name |-> "Finanzas", color |-> "bg-yellow-500"],
     [id |-> "home", name |-> "Hogar", color |-> "bg-purple-500"],
     [id |-> "study", name |-> "Estudio", color |-> "bg-indigo-500"],
     [id |-> "shopping", name |-> "Compras", color |-> "bg-pink-500"],
     [id |-> "travel", name |-> "Viajes", color |-> "bg-orange-500"],
     [id |-> "other", name |-> "Otros", color |-> "bg-gray-500"] >>

TASK_PRIORITIES ==
  << [id |-> "low", name |-> "Baja", color |-> "bg-gray-400"],
     [id |-> "medium", name |-> "Media", color |-> "bg-yellow-400"],
     [id |-> "high", name |-> "Alta", color |-> "bg-red-500"],
     [id |-> "urgent", name |-> "Urgente", color |-> "bg-red-600"] >>

TASK_STATUSES ==
  << [id |-> "pending", name |-> "Pendiente", color |-> "bg-gray-400"],
     [id |-> "completed", name |-> "Completada", color |-> "bg-green-500"],
     [id |-> "cancelled", name |-> "Cancelada", color |-> "bg-red-400"] >>

\* the value of an absent property or argument
Undefined == "undefined"

\* a || b over lists of at most one descriptor (the empty list is undefined)
OrElse(a, b) == IF a # <<>> THEN a ELSE b

getCategoryById(categoryId) ==
  OrElse(Find(TASK_CATEGORIES, categoryId), Find(TASK_CATEGORIES, "other"))

\* variant: no fallback to the default descriptor
getPriorityByIdStrict(priorityId) == Find(TASK_PRIORITIES, priorityId)

getPriorityById(priorityId) ==
  OrElse(Find(TASK_PRIORITIES, priorityId), Find(TASK_PRIORITIES, "medium"))

getStatusById(statusId) ==
  OrElse(Find(TASK_STATUSES, statusId), Find(TASK_STATUSES, "pending"))

\* task[f], undefined when the task has no such property
Property(task, f) == IF f \in DOMAIN task THEN task[f] ELSE Undefined

\* the values a task's category, priority and status can hold: the ids of the
\* table, values updateTask stored unchecked, and none at all
CategoryValues == TaskCategories \cup {"bogus", "Work", "", Undefined}
PriorityLabels == TaskPriorities \cup {"bogus", "", Undefined}
StatusValues == TaskStatuses \cup {"done", "", Undefined}

\* a guest's task after updateTask gave it the values that are defined
LabelledTask(category, priority, status) ==
  LET given == {f \in {"category", "priority", "status"} :
                  [category |-> category, priority |-> priority,
                   status |-> status][f] # Undefined}
  IN Spread([id |-> 1, title |-> BuyMilk, done |-> FALSE, createdAt |-> 1],
            [f \in given |-> [category |-> category, priority |-> priority,
                              status |-> status][f]])

\* a guest session that has loaded one such task
InitResolve ==
  /\ currentUser = [id |-> 1, mode |-> "guest"]
  /\ \E category \in CategoryValues, priority \in PriorityLabels,
        status \in StatusValues :
       tasks = <<LabelledTask(category, priority, status)>>
  /\ storage = LocalStoreSave(<<>>, 1, tasks, TRUE)
  /\ remote = <<>>
  /\ now = 1
  /\ nsubs = 1
  /\ nextId = 2
  /\ calls = <<>>
  /\ last = Result("loadTasks", NoId, "ok", <<>>)
  /\ cbCount = 1
  /\ cbArg = tasks
  /\ snap = <<>>
  /\ hist = [valid |-> FALSE, made |-> <<>>, again |-> FALSE]

\* a lookup made for the task at position k: its argument and what it returned
Resolved(op, arg, value) ==
  /\ last' = [op |-> op, id |-> NoId, outcome |-> "ok", value |-> value,
              args |-> <<arg>>]
  /\ NoNotify
  /\ UNCHANGED <<currentUser, tasks, nsubs, storage, remote, nextId, now,
                 calls, snap>>

GetCategoryById(k) ==
  LET categoryId == Property(tasks[k], "category")
  IN Resolved("getCategoryById", categoryId, getCategoryById(categoryId))

GetPriorityById(k) ==
  LET priorityId == Property(tasks[k], "priority")
  IN Resolved("getPriorityById", priorityId, getPriorityById(priorityId))

GetStatusById(k) ==
  LET statusId == Property(tasks[k], "status")
  IN Resolved("getStatusById", statusId, getStatusById(statusId))

NextResolve ==
  \/ \E k \in 1..Len(tasks) : GetCategoryById(k) /\ Observe
  \/ \E k \in 1..Len(tasks) : GetPriorityById(k) /\ Observe
  \/ \E k \in 1..Len(tasks) : GetStatusById(k) /\ Observe

SpecResolve == InitResolve /\ [][NextResolve]_vars

----------------------------------------------------------------------------
(* Properties *)

MutatingOps ==
  {"addTask", "toggleTask", "updateTask", "removeTask", "clearAllTasks"}

\* a step in which a Firestore call of a mutating operation is rejected
BackendFailure(i) ==
  \/ AddDocStep(i, FALSE)
  \/ ToggleGetDocs(i, FALSE)
  \/ ToggleUpdateDoc(i, FALSE)
  \/ UpdateDocStep(i, FALSE)
  \/ UpdateGetDocs(i, FALSE)
  \/ RemoveDeleteDoc(i, FALSE)
  \/ ClearDeleteDoc(i, FALSE)

\* a step in which a caller invokes one of the five mutating operations
MutationIssued ==
  \/ \E title \in TitleInputs, writeOk \in BOOLEAN :
       AddTask(title, NoDue, "other", "medium", "pending", writeOk)
  \/ \E id \in IdInputs, writeOk \in BOOLEAN : ToggleTask(id, writeOk)
  \/ \E id \in IdInputs, updates \in UpdateInputs, writeOk \in BOOLEAN :
       UpdateTask(id, updates, writeOk)
  \/ \E id \in IdInputs, writeOk \in BOOLEAN : RemoveTask(id, writeOk)
  \/ ClearAllTasks

\* C1: when a backend call of addTask, toggleTask, updateTask, removeTask or
\* clearAllTasks fails, the caller gets the error and the cache is what it
\* was when the operation was called: the failing step leaves the cache as
\* it is, and so does every step that leaves the call suspended.
C1_FailedMutationKeepsCache ==
  [][ /\ \A i \in 1..Len(calls) :
           BackendFailure(i) =>
             /\ last'.outcome = "error"
             /\ last'.op = calls[i].op
             /\ calls[i].op \in MutatingOps
             /\ tasks' = tasks
      /\ calls' # <<>> => tasks' = tasks ]_vars

\* C1 witness: clearAllTasks failed on its second delete; both tasks are
\* still cached although one document is gone
C1_Witness ==
  /\ last.op = "clearAllTasks"
  /\ last.outcome = "error"
  /\ Len(tasks) = 2
  /\ Cardinality(DOMAIN remote) = 1

\* C2: a mutating operation invoked without a session fails with
\* NotAuthenticated, calls no adapter and changes neither the cache nor the
\* local store nor the remote collection, and notifies nobody.
C2_NotAuthenticatedFailsFast ==
  [][ (NotAuthenticated /\ MutationIssued) =>
        /\ last'.outcome = "NotAuthenticated"
        /\ last'.op \in MutatingOps
        /\ cbCount' = 0
        /\ UNCHANGED <<tasks, storage, remote, calls>> ]_vars

\* C2 witness: after sign-out, with tasks still cached and stored, a
\* clearAllTasks was refused
C2_Witness ==
  /\ currentUser = NullUser
  /\ last = Result("clearAllTasks", NoId, "NotAuthenticated", <<>>)
  /\ tasks # <<>>
  /\ DOMAIN remote # {}

\* a title made of nothing but spaces (the empty title included)
Blank(title) == \A k \in 1..Len(title) : title[k] = " "

\* C3: in a session, addTask with an empty or whitespace-only title fails
\* with ValidationError without calling the adapter: cache, local store and
\* remote collection are unchanged and no callback is invoked.
C3_BlankTitleRejected ==
  [][ \A title \in TitleInputs, writeOk \in BOOLEAN :
        ( /\ ~NotAuthenticated
          /\ Blank(title)
          /\ AddTask(title, NoDue, "other", "medium", "pending", writeOk) ) =>
            /\ last' = Result("addTask", NoId, "ValidationError", <<>>)
            /\ cbCount' = 0
            /\ UNCHANGED <<tasks, storage, remote, calls, nextId>> ]_vars

\* C3 witness: a rejected addTask in a session whose cache holds a task
C3_Witness ==
  /\ currentUser # NullUser
  /\ last = Result("addTask", NoId, "ValidationError", <<>>)
  /\ tasks # <<>>

Reverse(list) == [i \in 1..Len(list) |-> list[Len(list) + 1 - i]]

\* C4: after N successful addTask calls made one after the other on an empty
\* cache, the cache holds exactly the N returned tasks, the most recent first
\* (guest and firebase mode).
C4_CreatesNewestFirst ==
  hist.valid => tasks = Reverse(hist.made)

\* C4 witness: two creations in a row in firebase mode
C4_Witness ==
  /\ getCurrentUserMode = "firebase"
  /\ hist.valid
  /\ Len(hist.made) = 2

\* the current owner has no task with this id in the backend of the session
NoLocalTask(id) ==
  \A k \in 1..Len(LocalStoreLoad(getCurrentUserId)) :
    LocalStoreLoad(getCurrentUserId)[k].id # id

NoRemoteTask(userId, id) ==
  ~(id \in DOMAIN remote /\ remote[id].ownerId = userId)

\* C5: toggleTask(id) for an id no task of the owner has returns null
\* instead of throwing (the backend read itself not failing), changes neither
\* the cache nor a backend, and invokes no callback.
C5_ToggleUnknownId ==
  [][ /\ \A id \in IdInputs, writeOk \in BOOLEAN :
           ( /\ getCurrentUserMode = "guest"
             /\ NoLocalTask(id)
             /\ ToggleTask(id, writeOk) ) =>
               /\ last' = Result("toggleTask", id, "null", <<>>)
               /\ cbCount' = 0
               /\ UNCHANGED <<tasks, storage, remote>>
      /\ \A id \in IdInputs :
           (getCurrentUserMode = "firebase" /\ ToggleTask(id, TRUE)) =>
               /\ cbCount' = 0
               /\ UNCHANGED <<tasks, storage, remote>>
      /\ \A i \in 1..Len(calls) :
           ( /\ Suspended(i, "toggleTask", "getDocs")
             /\ NoRemoteTask(calls[i].userId, calls[i].id)
             /\ ToggleGetDocs(i, TRUE) ) =>
               /\ last' = Result("toggleTask", calls[i].id, "null", <<>>)
               /\ cbCount' = 0
               /\ calls' = Finish(i)
               /\ UNCHANGED <<tasks, storage, remote>> ]_vars

\* C5 witness: firebase mode, tasks cached, a toggle answered null
C5_Witness ==
  /\ getCurrentUserMode = "firebase"
  /\ last.op = "toggleTask"
  /\ last.outcome = "null"
  /\ tasks # <<>>
  /\ DOMAIN remote # {}

RECURSIVE Without(_, _)
Without(list, id) ==
  IF list = <<>> THEN <<>>
  ELSE IF Head(list).id = id THEN Without(Tail(list), id)
  ELSE <<Head(list)>> \o Without(Tail(list), id)

\* C6: a removeTask(id) that returns (its delete not rejected by the
\* backend) reports success and leaves the cache without the task and
\* otherwise as it was; when it repeats the removeTask(id) before it, the
\* cache after it equals the cache before it.
C6_RemoveTwice ==
  [][ \A id \in IdInputs :
        RemoveReturns(id) =>
          /\ last' = Result("removeTask", id, "ok", <<>>)
          /\ tasks' = Without(tasks, id)
          /\ last = Result("removeTask", id, "ok", <<>>) => tasks' = tasks ]_vars

\* C6 witness: the second of two removeTask calls for one id has returned,
\* in firebase mode, with other tasks left in the cache
C6_Witness ==
  /\ hist.again
  /\ getCurrentUserMode = "firebase"
  /\ last.op = "removeTask"
  /\ last.outcome = "ok"
  /\ tasks # <<>>

\* C7: in a guest session whose cache and store were empty, addTask of
\* "Buy milk" (the store taking the write) followed by toggleTask of the
\* returned id leaves exactly one cached task, titled "Buy milk", done.
C7_GuestFlow ==
  [][ \A writeOk \in BOOLEAN :
        ( /\ getCurrentUserMode = "guest"
          /\ hist.valid
          /\ Len(hist.made) = 1
          /\ hist.made[1].title = BuyMilk
          /\ last.op = "addTask"
          /\ last.id = hist.made[1].id
          /\ LocalStoreLoad(getCurrentUserId) = hist.made
          /\ ToggleTask(last.id, writeOk) ) =>
            /\ Len(tasks') = 1
            /\ tasks'[1].id = last.id
            /\ tasks'[1].title = BuyMilk
            /\ tasks'[1].done = TRUE
            /\ last'.outcome = "ok" ]_vars

\* C7 witness: the guest session after the toggle
C7_Witness ==
  /\ getCurrentUserMode = "guest"
  /\ last.op = "toggleTask"
  /\ last.outcome = "ok"
  /\ Len(tasks) = 1
  /\ tasks[1].title = BuyMilk
  /\ tasks[1].done = TRUE
  /\ tasks[1].id = last.id

\* the defaults of addTask's optional parameters
Default(f) ==
  CASE f = "dueDate" -> NoDue
    [] f = "category" -> "other"
    [] f = "priority" -> "medium"
    [] f = "status" -> "pending"

\* the value of an optional property, an absent one read as the default
Opt(obj, f) == IF f \in DOMAIN obj THEN obj[f] ELSE Default(f)

\* the value of a property, as a list that is empty when the property is absent
Field(obj, f) == IF f \in DOMAIN obj THEN <<obj[f]>> ELSE <<>>

\* a step in which loadTasks returns in the session that made the last creation
LoadReturns ==
  \/ getCurrentUserMode = "guest" /\ LoadTasks
  \/ \E i \in 1..Len(calls) :
       /\ LoadResume(i)
       /\ Field(last.value[1], "ownerId") = <<calls[i].userId>>

\* the loaded task t has the values given to addTask and those of the record
\* addTask returned
RoundTripped(t, args, returned) ==
  /\ t.id = returned.id
  /\ t.title = Trim(args[1])
  /\ Opt(t, "dueDate") = args[2]
  /\ Opt(t, "category") = args[3]
  /\ Opt(t, "priority") = args[4]
  /\ Opt(t, "status") = args[5]
  /\ \A f \in {"title", "done", "createdAt"} : t[f] = returned[f]
  /\ \A f \in {"dueDate", "category", "priority", "status"} :
       Opt(t, f) = Opt(returned, f)

\* C8: after a successful addTask(title, dueDate, category, priority, status),
\* a loadTasks against the same backend caches a task whose title, dueDate,
\* category, priority, status, done and createdAt equal the values passed to
\* addTask and the values of the record addTask returned.
C8_RoundTrip ==
  [][ (last.op = "addTask" /\ last.outcome = "ok" /\ LoadReturns) =>
        \E k \in 1..Len(tasks') :
          RoundTripped(tasks'[k], last.args, last.value[1]) ]_vars

\* a step in which the holder of an array from getTasks changes it or one of
\* its elements
CallerChange ==
  \/ SnapPush
  \/ SnapPop
  \/ SnapReverse
  \/ \E k \in 1..MaxSnap : SnapSetDone(k)

\* C9: getTasks returns a defensive copy: nothing a caller does through the
\* returned array (adding, removing or reordering elements, changing a field
\* of a returned task) changes the cached list.
C9_DefensiveCopy ==
  [][ CallerChange => tasks' = tasks ]_vars

\* a step in which loadTasks or a mutating operation returns normally
ReturnedOk ==
  /\ last'.outcome = "ok"
  /\ \/ Len(calls') < Len(calls)
     \/ calls' = calls /\ (LoadTasks \/ EnterAsGuest \/ MutationIssued)

\* C10: every registered callback is invoked with the new list whenever the
\* cache changes and whenever loadTasks or a mutating operation returns
\* normally; registering a callback invokes it once, with the cached list,
\* when the cache is non-empty, and not at all when it is empty.
C10_SubscribersNotified ==
  [][ /\ (tasks' # tasks \/ ReturnedOk) =>
           /\ cbCount' = nsubs
           /\ cbArg' = tasks'
      /\ nsubs' # nsubs =>
           /\ nsubs' = nsubs + 1
           /\ cbCount' = IF tasks # <<>> THEN 1 ELSE 0
           /\ tasks # <<>> => cbArg' = tasks ]_vars

\* C10 witness: a second callback registered on a non-empty cache and invoked
C10_Witness ==
  /\ nsubs = 2
  /\ cbCount = 1
  /\ tasks # <<>>
  /\ cbArg = tasks

\* C11: loadTasks replaces the cache with the adapter's list for the current
\* owner and notifies every callback; when the adapter fails the cache
\* becomes empty and every callback is still notified, with the empty list.
C11_LoadReplacesCache ==
  [][ /\ (getCurrentUserMode = "guest" /\ LoadTasks) =>
           /\ tasks' = LocalStoreLoad(getCurrentUserId)
           /\ cbCount' = nsubs
           /\ cbArg' = tasks'
      /\ \A i \in 1..Len(calls) :
           /\ LoadResume(i) =>
                /\ calls[i].userId = getCurrentUserId
                /\ tasks' = FetchFirestoreTasks(getCurrentUserId)
                /\ cbCount' = nsubs
                /\ cbArg' = tasks'
           /\ LoadGetDocs(i, FALSE) =>
                /\ tasks' = <<>>
                /\ cbCount' = nsubs
                /\ cbArg' = <<>> ]_vars

\* C11 witness: a failed load has emptied the cache of a firebase session
\* whose owner has documents in the collection
C11_Witness ==
  /\ getCurrentUserMode = "firebase"
  /\ calls = <<>>
  /\ last.op = "loadTasks"
  /\ tasks = <<>>
  /\ cbCount = nsubs
  /\ FetchFirestoreTasks(getCurrentUserId) # <<>>

\* C12: loadTasks invoked without a session (no owner id or no mode) fails
\* with NotAuthenticated, like the mutating operations.
C12_LoadNotAuthenticated ==
  [][ (NotAuthenticated /\ LoadTasks) =>
        last'.outcome = "NotAuthenticated" ]_vars

\* C13: clearAllTasks in firebase mode attempts a remote remove for every
\* task cached when it was called, also after one of the removes failed: when
\* the call ends, no cached task is left without an attempt.
C13_ClearAttemptsAll ==
  [][ \A i \in 1..Len(calls) :
        ( /\ calls[i].op = "clearAllTasks"
          /\ \E ok \in BOOLEAN : ClearDeleteDoc(i, ok)
          /\ Len(calls') < Len(calls) ) =>
            Tail(calls[i].todo) = <<>> ]_vars

\* C14: for a cache of one open task due yesterday, one due today, one due
\* in two days and one done task, getTasksStats gives overdue 1, dueToday 1,
\* dueSoon 1, completed 1, pending 3, total 4, at every time of day.
C14_Stats ==
  last.op = "getTasksStats" =>
    last.value[1] = [total |-> 4, completed |-> 1, pending |-> 3,
                     overdue |-> 1, dueToday |-> 1, dueSoon |-> 1]

\* the same tasks, each as many times
SameTasks(a, b) ==
  /\ Len(a) = Len(b)
  /\ \A t \in {a[k] : k \in 1..Len(a)} :
       Len(SelectSeq(a, LAMBDA x : x = t)) = Len(SelectSeq(b, LAMBDA x : x = t))

\* C15: filterTasks({sortBy: 'priority'}) returns the cached tasks ordered by
\* descending priority rank for every cache, tasks without one of the four
\* priorities included (wherever those are placed, the tasks with a rank
\* come in descending rank); the cache is not reordered.
C15_SortByPriority ==
  [][ FilterTasks([sortBy |-> "priority"]) =>
        /\ SameTasks(last'.value, tasks)
        /\ \A i, j \in 1..Len(last'.value) :
             (i < j /\ Ranked(last'.value[i]) /\ Ranked(last'.value[j])) =>
               PriorityOrder[last'.value[i].priority]
                 >= PriorityOrder[last'.value[j].priority]
        /\ tasks' = tasks ]_vars

\* every task of the cache, of the local store and of the collection
Elements(list) == {list[k] : k \in 1..Len(list)}

AllTasks ==
  Elements(tasks)
    \cup UNION {Elements(JSONParse(storage[u])) : u \in DOMAIN storage}
    \cup {remote[k] : k \in DOMAIN remote}

\* C16: in every reachable state no task of the cache or of a backend has an
\* empty or whitespace-only title (addTask and updateTask both reject one).
C16_NoBlankTitle ==
  \A t \in AllTasks : ~Blank(t.title)

\* the three fields fixed at creation
Identity(t) == <<Field(t, "id"), Field(t, "ownerId"), Field(t, "createdAt")>>

Identities(list) == [k \in 1..Len(list) |-> Identity(list[k])]

\* a step of toggleTask or of updateTask
ToggleOrUpdateStep ==
  \/ \E id \in IdInputs : ToggleTask(id, TRUE)
  \/ \E id \in IdInputs, updates \in FieldUpdates : UpdateTask(id, updates, TRUE)
  \/ \E i \in 1..Len(calls) :
       \/ ToggleGetDocs(i, TRUE)
       \/ ToggleUpdateDoc(i, TRUE)
       \/ ToggleResume(i)
       \/ UpdateDocStep(i, TRUE)
       \/ UpdateGetDocs(i, TRUE)
       \/ UpdateResume(i)

\* C17: no toggleTask and no updateTask, whatever fields it is given, changes
\* the id, the ownerId or the createdAt of a cached or persisted task.
C17_IdentityImmutable ==
  [][ ToggleOrUpdateStep =>
        /\ Identities(tasks') = Identities(tasks)
        /\ DOMAIN storage' = DOMAIN storage
        /\ \A u \in DOMAIN storage :
             Identities(JSONParse(storage'[u])) = Identities(JSONParse(storage[u]))
        /\ DOMAIN remote' = DOMAIN remote
        /\ \A k \in DOMAIN remote :
             Identity(Spread([id |-> k], remote'[k]))
               = Identity(Spread([id |-> k], remote[k])) ]_vars

\* C18: in every reachable state every task of the cache and of the backends
\* has a category of the fixed set, a priority of low, medium, high, urgent
\* and a status of pending, completed, cancelled (an absent value being read
\* as the default): addTask and updateTask never store another value.
C18_EnumeratedValues ==
  \A t \in AllTasks :
    /\ Opt(t, "category") \in TaskCategories
    /\ Opt(t, "priority") \in TaskPriorities
    /\ Opt(t, "status") \in TaskStatuses

\* C19: the cache never crosses a session boundary: with no session the
\* cache is empty, and under a session every cached task is one of that
\* session's owner (a document of the signed-in owner, or a task of the
\* browser store while the session is a guest's).
OfCurrentSession(t) ==
  IF "ownerId" \in DOMAIN t
  THEN currentUser.mode = "firebase" /\ t.ownerId = currentUser.id
  ELSE currentUser.mode = "guest"

C19_CacheWithinSession ==
  IF currentUser = NullUser
  THEN tasks = <<>>
  ELSE \A t \in Elements(tasks) : OfCurrentSession(t)

\* C20: ownerId scopes the remote adapter: a toggle, update or remove issued
\* for an owner never changes or deletes a document of another owner, and an
\* update of such a document's id returns not-found.
Foreign(userId) == {k \in DOMAIN remote : remote[k].ownerId # userId}

RemoteWrite(i) ==
  \E ok \in BOOLEAN :
    ToggleUpdateDoc(i, ok) \/ UpdateDocStep(i, ok) \/ RemoveDeleteDoc(i, ok)

C20_OwnerScoped ==
  [][ \A i \in 1..Len(calls) :
        /\ RemoteWrite(i) =>
              \A k \in Foreign(calls[i].userId) :
                k \in DOMAIN remote' /\ remote'[k] = remote[k]
        /\ ( /\ Suspended(i, "updateTask", "getDocs")
             /\ calls[i].id \in Foreign(calls[i].userId)
             /\ UpdateGetDocs(i, TRUE) ) =>
              last'.outcome = "null" ]_vars

\* C21: LocalStore.getStats and getTasksStats use the same definitions: when
\* the cache equals the owner's stored list, the store's statistics are the
\* six counts getTasksStats computes at the same instant.
C21_SameStats ==
  [][ ((GetStats \/ GetStatsDated) /\ tasks = LocalStoreLoad(getCurrentUserId))
        => last'.value[1] = getTasksStats(tasks, now) ]_vars

\* C22: every task an adapter persists carries the ownerId of the session
\* that created it: a new document or stored task has the current session's
\* id as its ownerId, and a persisted task keeps its ownerId.
StoredTasks(store, userId) ==
  IF userId \in DOMAIN store THEN Elements(JSONParse(store[userId])) ELSE {}

OwnedBy(t, userId) == "ownerId" \in DOMAIN t /\ t.ownerId = userId

C22_OwnerIdStored ==
  [][ /\ \A k \in DOMAIN remote' :
           IF k \in DOMAIN remote
           THEN OwnedBy(remote'[k], remote[k].ownerId)
           ELSE OwnedBy(remote'[k], currentUser.id)
      /\ \A u \in DOMAIN storage' :
           \A t \in StoredTasks(storage', u) : OwnedBy(t, u) ]_vars

\* C23: the lookups are total: for every id, unknown and absent ones
\* included, getCategoryById, getPriorityById and getStatusById return a
\* descriptor of their table, the one with that id when there is one and
\* otherwise the default (other, medium, pending).
Expected(table, fallback, arg) ==
  IF \E k \in 1..Len(table) : table[k].id = arg THEN arg ELSE fallback

ResolvedFrom(table, fallback) ==
  /\ Len(last.value) = 1
  /\ last.value[1] \in Elements(table)
  /\ last.value[1].id = Expected(table, fallback, last.args[1])

C23_ResolversTotal ==
  /\ last.op = "getCategoryById" => ResolvedFrom(TASK_CATEGORIES, "other")
  /\ last.op = "getPriorityById" => ResolvedFrom(TASK_PRIORITIES, "medium")
  /\ last.op = "getStatusById" => ResolvedFrom(TASK_STATUSES, "pending")

C23_Witness ==
  /\ last.op = "getPriorityById"
  /\ last.args = <<Undefined>>
  /\ last.value = <<TASK_PRIORITIES[2]>>
  /\ Property(tasks[1], "category") = "bogus"

\* a step in which toggleTask, or updateTask, returns a task to its caller
ToggleReturns ==
  \/ \E id \in IdInputs, writeOk \in BOOLEAN :
       getCurrentUserMode = "guest" /\ ToggleTask(id, writeOk) /\ last'.outcome = "ok"
  \/ \E i \in 1..Len(calls) : ToggleResume(i)

UpdateReturns ==
  \/ \E id \in IdInputs, updates \in UpdateInputs \cup FieldUpdates, writeOk \in BOOLEAN :
       getCurrentUserMode = "guest" /\ UpdateTask(id, updates, writeOk)
         /\ last'.outcome = "ok"
  \/ \E i \in 1..Len(calls) : UpdateResume(i)

\* the cache after the step has the ids of the cache before it, in the same
\* order, and the entries of every other id as they were
ReplacedInPlace(id) ==
  /\ Len(tasks') = Len(tasks)
  /\ \A k \in 1..Len(tasks) :
       /\ tasks'[k].id = tasks[k].id
       /\ tasks[k].id # id => tasks'[k] = tasks[k]

\* the entries of `id` differ in nothing but done
OnlyDoneChanged(id) ==
  \A k \in 1..Len(tasks) :
    tasks[k].id = id =>
      \A f \in (DOMAIN tasks[k] \cup DOMAIN tasks'[k]) \ {"done"} :
        Field(tasks'[k], f) = Field(tasks[k], f)

\* C24: a successful toggleTask(id) or updateTask(id, fields) replaces the
\* cached entry of id in place: same length, same ids in the same order,
\* every other entry unchanged, and a toggle changes no field but done.
C24_ReplacedInPlace ==
  [][ /\ ToggleReturns =>
           ReplacedInPlace(last'.id) /\ OnlyDoneChanged(last'.id)
      /\ UpdateReturns => ReplacedInPlace(last'.id) ]_vars

\* the tasks of a list, each by its id and its done flag
Marks(list) == {<<t.id, t.done>> : t \in Elements(list)}

\* C25: the cache is kept in sync with the backend under interleaving: in a
\* firebase session, once every issued load, create, toggle, update and
\* delete has completed without error, the cache holds the tasks the remote
\* collection holds for the current owner, with the same done flags.
C25_CacheInSync ==
  (Quiet /\ currentUser # NullUser) =>
    Marks(tasks) = Marks(FetchFirestoreTasks(getCurrentUserId))

\* C26: task ids are unique within the cache in every reachable state,
\* under every interleaving of loadTasks and addTask.
C26_UniqueIds ==
  \A i, j \in 1..Len(tasks) : tasks[i].id = tasks[j].id => i = j

\* the ids of a list, in its order
Ids(list) == [k \in 1..Len(list) |-> list[k].id]

\* C27: cache order and backend order agree after create: in a firebase
\* session, once the issued addTask calls have completed, the cache lists the
\* tasks in the order the query of fetchFirestoreTasks returns them
\* (createdAt descending), so that a following load would not reorder it.
C27_OrderAgrees ==
  (Quiet /\ currentUser # NullUser) =>
    Ids(tasks) = Ids(FetchFirestoreTasks(getCurrentUserId))

\* C28: each toggleTask flips done exactly once: once two toggleTask calls on
\* the same open task have both completed, under any interleaving of their
\* fetch and their write, the task is open again in the collection and in
\* the cache.
C28_TwoTogglesRestore ==
  Quiet =>
    /\ \A k \in DOMAIN remote : ~remote[k].done
    /\ \A t \in Elements(tasks) : ~t.done

\* C29: logout terminates: the chain handleUserLogout -> handleSignOut ->
\* setCurrentUser(null) -> auth-state callback comes to an end by itself; a
\* sign-out does not start another one until the calls can nest no deeper.
C29_LogoutTerminates ==
  last.outcome # "RangeError"

\* the list the browser store holds under a key
StoredList(store, userId) ==
  IF userId \in DOMAIN store THEN JSONParse(store[userId]) ELSE <<>>

\* C30: in a guest session, after every call that returns, the cache equals
\* the list stored under the owner's key, whether or not the store accepted
\* the write; and no call of the session changes the entry of another key.
C30_CacheEqualsStore ==
  [][ /\ currentUser'.mode = "guest" =>
           tasks' = StoredList(storage', currentUser'.id)
      /\ currentUser.mode = "guest" =>
           \A u \in DOMAIN storage \ {currentUser.id} :
             u \in DOMAIN storage' /\ storage'[u] = storage[u] ]_vars

====
